---- MODULE Spec2Model ----
(***************************************************************************)
(* A model of the transaction propagation engine of tx-relay-server.rs:    *)
(* the mempool poller (monitor_mempool), the gateway to the Nostr relay    *)
(* (connect_to_strfry / try_connect_to_strfry), the ingress handler        *)
(* (handle_remote_transaction) and the remote-origin set they share.       *)
(*                                                                         *)
(* Every relay runs two long-lived tasks: the poller and the gateway.  The *)
(* ingress handler is awaited inside the gateway's select loop, so it runs *)
(* in the gateway task.  A step of the model is the code between two       *)
(* suspension points (an RPC await, a lock await, a socket await, a sleep).*)
(***************************************************************************)
EXTENDS Integers, Sequences, FiniteSets, TLC

\* ------------------------------------------------------------------ bounds
NumTx == 1          \* transactions of the universe
MaxQueue == 1       \* events held by the unbounded mpsc channel
MaxTime == 1        \* seconds the wall clock advances
FedTx == 1          \* transactions of the federation specification

\* --------------------------------------------------------------- universe
TXIDS == 1..NumTx
FedTxids == 1..FedTx
Relays == {1, 2}                 \* relay_id values
Self == 1                        \* the relay of the single-relay specification
NoTx == 0

\* A kind-20012 event as the ingress handler reads it: the values of its
\* relay_id tag, the txid field of its content and the transaction its hex
\* field carries (named by the txid the node computes for it).
Event(t, h, tag) == [txid |-> t, hex |-> h, tag |-> tag]
NoEvent == [txid |-> NoTx, hex |-> NoTx]

\* broadcast_transaction: the event a relay builds for a mempool transaction.
OwnEvent(r, t) == Event(t, t, <<r>>)

\* The created_at to_event gives the event when it is built.
Stamped(t, at) == [txid |-> t, at |-> at]

\* Events other participants of the bus publish (the single-relay
\* specification's environment): any txid field, any transaction, tagged
\* with the other relay's id or, synthesized, with the receiver's own.
ForeignEvents == { Event(t, h, <<s>>) : t \in TXIDS, h \in TXIDS, s \in Relays }

\* Outcomes of getrawtransaction followed by hex::decode and deserialize.
FetchResults == {"ok", "err", "undeser", "nonhex"}
\* Outcomes of sendrawtransaction.
SubmitResults == {"ok", "already", "rejected"}

VARIABLES
    mempool,              \* [Relays -> SUBSET TXIDS]: each node's mempool
    known_txids,          \* M, the poller's local set
    remote_transactions,  \* R, shared by ingress (writer) and poller (reader)
    strfry_queue,         \* the mpsc channel: the events enqueued, as Stamped
    pollPc,               \* the poller's position
    current_txids,        \* the snapshot of the tick in progress
    pending,              \* txids of the snapshot the for loop has not reached
    cur_txid,             \* the txid whose getrawtransaction is awaited
    raw_tx,               \* outcome of the last getrawtransaction
    gwState,              \* the gateway's position
    since,                \* the since of the filter of the last REQ sent
    inPc,                 \* the ingress handler's position
    inEv,                 \* the event the ingress handler is handling
    bus,                  \* events the Nostr relay forwarded, not yet read
    store,                \* events the Nostr relay keeps, with created_at
    lost,                 \* history: txids of events taken off the channel whose send failed
    relayUp,              \* the Nostr relay is reachable
    now,                  \* wall clock, seconds since process start
    published,            \* history: txids a publish was enqueued for
    initKnown,            \* history: txids in M continuously since startup
    initFetch,            \* history: how the initial getrawmempool ended
    fetchErr,             \* history: the getrawmempool of the tick in progress failed
    submitted,            \* history: event txids an ingress submit was issued for
    lastDrop,             \* history: why the event just read was dropped
    config,               \* the validator's ValidationConfig flags
    tx_cache,             \* V: the LRU, most recently used first, of [txid, at]
    valPc,                \* each validate call's position
    valArg,               \* each validate call's tx_hex
    tmaAt,                \* history: when testmempoolaccept was last issued per txid
    prev,                 \* history: the validate call that returned last
    okAt,                 \* history: when a validation of the txid last passed Bitcoin Core
    quick,                \* each caller's last direct quick_validation_checks call
    cliOpen,              \* the inbound client's connection is open
    clients,              \* the ids in the client map
    cliChan,              \* the client's broadcast channel: events sent, not yet received
    cliTask,              \* the task that forwards the channel to the client's socket
    cliLog,               \* history: the submissions handled, with their RPC outcome
    cliGot,               \* history: the kind-20011 events written to the client's socket
    tip,                  \* the node's best block hash
    last_block_hash,      \* the block relay's last recorded tip, or NoHash
    blkPc,                \* the block relay's position
    handled,              \* history: how often each hash was handled as a new tip
    blkSent,              \* history: txids the block relay sent an event for
    blkFailed,            \* history: hashes whose last getblock failed
    blkIdle,              \* history: the last poll found the recorded tip again
    relay_id,             \* the relay id main parsed from the command line
    overflow_checks,      \* the build panics on integer overflow (debug) or wraps (release)
    port,                 \* the default listen port main computed
    rpc_port,             \* the port of the RPC URL the last RPC call built
    portPc                \* how far main and the first RPC call got

pollVars == <<known_txids, pollPc, current_txids, pending, cur_txid, raw_tx,
              initKnown, initFetch, fetchErr>>
gwVars == <<gwState, since, bus, store, lost>>
inVars == <<inPc, inEv, submitted, lastDrop>>
valVars == <<config, tx_cache, valPc, valArg, tmaAt, prev, okAt, quick>>
cliVars == <<cliOpen, clients, cliChan, cliTask, cliLog, cliGot>>
blkVars == <<tip, last_block_hash, blkPc, handled, blkSent, blkFailed, blkIdle>>
portVars == <<relay_id, overflow_checks, port, rpc_port, portPc>>
envVars == <<relayUp, now, valVars, cliVars, blkVars, portVars>>
vars == <<mempool, known_txids, remote_transactions, strfry_queue, pollPc,
          current_txids, pending, cur_txid, raw_tx, gwState, since, inPc, inEv,
          bus, store, lost, relayUp, now, published, initKnown, initFetch, fetchErr,
          submitted,
          lastDrop, valVars, cliVars, blkVars, portVars>>

\* ProcessStart is the clock value at which main runs.
ProcessStart == 0
\* No REQ has been sent yet.
NoSince == ProcessStart - 1

\* ---------------------------------------------------- the validator's data
CacheTtl == 1             \* config.cache_ttl_seconds
CacheSize == 1            \* config.cache_size
DefaultCapacity == 1000   \* the capacity used when cache_size is 0
MaxSubmit == 2            \* submissions the inbound client makes
NumBlocks == 2            \* block hashes the node may report as its tip
MaxHandle == 2            \* times a hash is handled before the node stops returning to it
MaxSmallId == 40          \* relay ids 0..MaxSmallId are tried beside the boundary ones
ClientChannel == 1        \* capacity of the client's broadcast channel
MinTxBytes == 60          \* quick_validation_checks: smallest byte_len accepted
MaxTxBytes == 400000      \* quick_validation_checks: largest byte_len accepted

\* A tx_hex string, as far as the validator reads it: its length in bytes
\* of UTF-8 (len), whether all its characters are ASCII hex digits
\* (hexchars), and the txid of the transaction it deserializes to (tx, NoTx
\* when hex::decode or deserialize fails).  Lengths sit around the size
\* limits; hex::decode needs hex digits in even number, and the empty string
\* decodes to no bytes, which deserialize to nothing.
Lens ==
    {0, 1} \cup { 2 * MinTxBytes + d : d \in {-2, -1, 0, 1} }
           \cup { 2 * MaxTxBytes + d : d \in {0, 1, 2, 3} }

Decodes(x) == x.hexchars /\ x.len % 2 = 0

\* The transactions the validator is given: two, so that a cache of one
\* entry overflows.
ValTxids == {1, 2}

\* The transactions a cache of two entries is given: three, so that the
\* eviction has an entry to choose.
CacheTxids == ValTxids \cup {3}

HexInputs ==
    { x \in [len : Lens, hexchars : BOOLEAN, tx : ValTxids \cup {NoTx}] :
         /\ x.len = 0 => x.hexchars
         /\ x.tx # NoTx => (Decodes(x) /\ x.len > 0) }

NoInput == [len |-> 0, hexchars |-> TRUE, tx |-> NoTx]

\* The tasks that may call validate at the same time.
Callers == {1, 2}

\* ValidationConfig: the two flags validate reads.
Configs == [enable_validation : BOOLEAN, enable_precheck : BOOLEAN,
            cache_size : {CacheSize}]
DefaultConfig == [enable_validation |-> TRUE, enable_precheck |-> TRUE,
                  cache_size |-> CacheSize]

\* testmempoolaccept has not been issued.
NoCall == ProcessStart - 1
NoPrev == [arg |-> NoInput, at |-> NoCall, ret |-> <<"none">>]
NoQuick == [arg |-> NoInput, ret |-> <<"none">>]

\* TransactionValidator::new: an empty cache, no call in progress.
ValInit(configs) ==
    /\ config \in configs
    /\ tx_cache = <<>>
    /\ valPc = [c \in Callers |-> "idle"]
    /\ valArg = [c \in Callers |-> NoInput]
    /\ tmaAt = [t \in CacheTxids |-> NoCall]
    /\ prev = NoPrev
    /\ okAt = [t \in CacheTxids |-> NoCall]
    /\ quick = [c \in Callers |-> NoQuick]

\* The width of u16, and the base ports of the listen address and of the
\* node's RPC.
U16Size == 65536
ListenBase == 7779
RpcBase == 18443
NoPort == 0 - 1

\* Before main has parsed its arguments.
PortInit ==
    /\ relay_id = 1
    /\ overflow_checks = FALSE
    /\ port = NoPort
    /\ rpc_port = NoPort
    /\ portPc = "start"

\* main.rs: the block hashes, None for last_block_hash, and the
\* transactions of a block: its coinbase and one other.
Hashes == 1..NumBlocks
NoHash == 0
BlockTxs(h) == << [txid |-> <<h, 0>>, coinbase |-> TRUE],
                  [txid |-> <<h, 1>>, coinbase |-> FALSE] >>

\* main, lines 20-34: the node has a tip and nothing is recorded.
BlkInit ==
    /\ tip = 1
    /\ last_block_hash = NoHash
    /\ blkPc = "poll"
    /\ handled = [h \in Hashes |-> 0]
    /\ blkSent = {}
    /\ blkFailed = {}
    /\ blkIdle = FALSE

\* The one inbound client; its id in the map is its peer address.
ClientId == 1

\* handle_connection, lines 122-129: the socket is accepted, the channel
\* created and the forwarding task spawned.
CliInit ==
    /\ cliOpen = TRUE
    /\ clients = {ClientId}
    /\ cliChan = <<>>
    /\ cliTask = "running"
    /\ cliLog = <<>>
    /\ cliGot = <<>>

\* A relay starts beside a node whose mempool may already hold transactions.
EngineInit(active, txs) ==
    /\ mempool \in [Relays -> SUBSET txs]
    /\ \A r \in Relays \ active : mempool[r] = {}
    /\ known_txids = [r \in Relays |-> {}]
    /\ remote_transactions = [r \in Relays |-> {}]
    /\ strfry_queue = [r \in Relays |-> <<>>]
    /\ pollPc = [r \in Relays |-> "init"]
    /\ current_txids = [r \in Relays |-> {}]
    /\ pending = [r \in Relays |-> {}]
    /\ cur_txid = [r \in Relays |-> NoTx]
    /\ raw_tx = [r \in Relays |-> "none"]
    /\ gwState = [r \in Relays |-> "connecting"]
    /\ since = [r \in Relays |-> NoSince]
    /\ inPc = [r \in Relays |-> "idle"]
    /\ inEv = [r \in Relays |-> NoEvent]
    /\ bus = [r \in Relays |-> {}]
    /\ store = {}
    /\ lost = [r \in Relays |-> {}]
    /\ relayUp = TRUE
    /\ now = ProcessStart
    /\ published = [r \in Relays |-> {}]
    /\ initKnown = [r \in Relays |-> {}]
    /\ initFetch = [r \in Relays |-> "none"]
    /\ fetchErr = [r \in Relays |-> FALSE]
    /\ submitted = [r \in Relays |-> {}]
    /\ lastDrop = [r \in Relays |-> "none"]

\* The engine and a validator of the default configuration.
InitOf(active, txs) ==
    ValInit({DefaultConfig}) /\ CliInit /\ BlkInit /\ PortInit /\ EngineInit(active, txs)

Init == InitOf({Self}, TXIDS)

\* A poller whose M starts as the mempool even when the call failed.
InitialKnownAlways(r, ok) == mempool[r]

\* ------------------------------------------------------------ the poller
\* monitor_mempool, lines 360-369: M starts as the snapshot, or empty when
\* the initial getrawmempool fails.
InitialKnown(r, ok) == IF ok THEN mempool[r] ELSE {}

\* The initial getrawmempool returns; oks are the outcomes the node may give.
PollInit(r, oks) ==
    /\ pollPc[r] = "init"
    /\ \E ok \in oks :
          /\ known_txids' = [known_txids EXCEPT ![r] = InitialKnown(r, ok)]
          /\ initKnown' = [initKnown EXCEPT ![r] = IF ok THEN mempool[r] ELSE {}]
          /\ initFetch' = [initFetch EXCEPT ![r] = IF ok THEN "ok" ELSE "err"]
    /\ pollPc' = [pollPc EXCEPT ![r] = "tick"]
    /\ UNCHANGED <<mempool, remote_transactions, strfry_queue, current_txids,
                   pending, cur_txid, raw_tx, published, fetchErr>>
    /\ UNCHANGED <<gwVars, inVars, envVars>>

\* A poller that a failed getrawmempool ends.
FetchErrorNextDead == "dead"

\* Lines 408-410: the Err arm logs, and the loop goes on to its sleep.
FetchErrorNext == "sleep"

\* The head of the loop: getrawmempool returns the snapshot, or fails and the
\* tick goes straight to the sleep.
PollFetch(r, oks) ==
    /\ pollPc[r] = "tick"
    /\ \E ok \in oks :
          IF ok
          THEN /\ current_txids' = [current_txids EXCEPT ![r] = mempool[r]]
               /\ pending' = [pending EXCEPT ![r] = mempool[r]]
               /\ pollPc' = [pollPc EXCEPT ![r] = "scan"]
               /\ UNCHANGED fetchErr
          ELSE /\ pollPc' = [pollPc EXCEPT ![r] = FetchErrorNext]
               /\ fetchErr' = [fetchErr EXCEPT ![r] = TRUE]
               /\ UNCHANGED <<current_txids, pending>>
    /\ raw_tx' = [raw_tx EXCEPT ![r] = "none"]
    /\ UNCHANGED <<mempool, known_txids, remote_transactions, strfry_queue,
                   cur_txid, published, initKnown, initFetch>>
    /\ UNCHANGED <<gwVars, inVars, envVars>>

\* A poller that takes every new txid for a local one.
IsRemoteNever(r, t) == FALSE

\* Lines 380-383: the read of R under the read lock.
IsRemote(r, t) == t \in remote_transactions[r]

\* One iteration of the for loop up to its first await: a known txid is
\* passed over, a remote one is inserted into M without a publish, and for a
\* local one getrawtransaction is issued.
PollScan(r) ==
    /\ pollPc[r] = "scan"
    /\ \E t \in pending[r] :
          /\ pending' = [pending EXCEPT ![r] = @ \ {t}]
          /\ IF t \in known_txids[r]
             THEN UNCHANGED <<known_txids, pollPc, cur_txid>>
             ELSE IF IsRemote(r, t)
                  THEN /\ known_txids' = [known_txids EXCEPT ![r] = @ \cup {t}]
                       /\ UNCHANGED <<pollPc, cur_txid>>
                  ELSE /\ pollPc' = [pollPc EXCEPT ![r] = "getraw"]
                       /\ cur_txid' = [cur_txid EXCEPT ![r] = t]
                       /\ UNCHANGED known_txids
    /\ raw_tx' = [raw_tx EXCEPT ![r] = "none"]
    /\ UNCHANGED <<mempool, remote_transactions, strfry_queue, current_txids,
                   published, initKnown, initFetch, fetchErr>>
    /\ UNCHANGED <<gwVars, inVars, envVars>>

\* send_to_strfry, lines 343-349: the event goes onto the channel.
Enqueue(q, t) == Append(q, Stamped(t, now))

\* Line 401: the insert into M stands after the `if !is_remote` block,
\* whatever getrawtransaction and deserialize returned.
KnownAfterFetch(known, t, res) == known \cup {t}

\* getrawtransaction returns.  A result that decodes and deserializes is
\* broadcast (lines 387-396); a failed call or an undeserializable result is
\* passed over; either way the txid is inserted into M (line 401).  A result
\* that is not hex makes hex::decode fail, and the ? of line 389 returns the
\* error from monitor_mempool: the poller task ends.
PollGetRaw(r, results) ==
    /\ pollPc[r] = "getraw"
    /\ \E res \in results :
          /\ raw_tx' = [raw_tx EXCEPT ![r] = res]
          /\ IF res = "nonhex"
             THEN /\ pollPc' = [pollPc EXCEPT ![r] = "dead"]
                  /\ UNCHANGED <<known_txids, strfry_queue, published>>
             ELSE /\ pollPc' = [pollPc EXCEPT ![r] = "scan"]
                  /\ known_txids' = [known_txids EXCEPT
                                       ![r] = KnownAfterFetch(@, cur_txid[r], res)]
                  /\ IF res = "ok"
                     THEN /\ Len(strfry_queue[r]) < MaxQueue
                          /\ strfry_queue' = [strfry_queue EXCEPT
                                                ![r] = Enqueue(@, cur_txid[r])]
                          /\ published' = [published EXCEPT ![r] = @ \cup {cur_txid[r]}]
                     ELSE UNCHANGED <<strfry_queue, published>>
    /\ cur_txid' = [cur_txid EXCEPT ![r] = NoTx]
    /\ UNCHANGED <<mempool, remote_transactions, current_txids, pending, initKnown,
                   initFetch, fetchErr>>
    /\ UNCHANGED <<gwVars, inVars, envVars>>

\* A poller that never forgets a txid.
RetainAll(known, current) == known

\* Line 406: M keeps the txids of the snapshot only.
Retain(known, current) == known \cap current

\* The for loop is over: prune M, then sleep.
PollPrune(r) ==
    /\ pollPc[r] = "scan"
    /\ pending[r] = {}
    /\ known_txids' = [known_txids EXCEPT ![r] = Retain(@, current_txids[r])]
    /\ initKnown' = [initKnown EXCEPT ![r] = @ \cap current_txids[r]]
    /\ UNCHANGED <<initFetch, fetchErr>>
    /\ current_txids' = [current_txids EXCEPT ![r] = {}]
    /\ raw_tx' = [raw_tx EXCEPT ![r] = "none"]
    /\ pollPc' = [pollPc EXCEPT ![r] = "sleep"]
    /\ UNCHANGED <<mempool, remote_transactions, strfry_queue, pending, cur_txid,
                   published>>
    /\ UNCHANGED <<gwVars, inVars, envVars>>

\* Line 414: the 2 s sleep ends.
PollSleep(r) ==
    /\ pollPc[r] = "sleep"
    /\ pollPc' = [pollPc EXCEPT ![r] = "tick"]
    /\ fetchErr' = [fetchErr EXCEPT ![r] = FALSE]
    /\ UNCHANGED <<mempool, remote_transactions, strfry_queue, known_txids,
                   current_txids, pending, cur_txid, raw_tx, published, initKnown, initFetch>>
    /\ UNCHANGED <<gwVars, inVars, envVars>>

\* ----------------------------------------------------------- the gateway
\* A reconnect loop that gives up when connecting or subscribing fails.
AfterTryGivesUp(result) == IF result = "err" THEN "closed" ELSE "backoff"

\* connect_to_strfry, lines 484-494: whatever try_connect_to_strfry returns
\* ("ok": the select loop was left; "err": connect or the REQ send failed),
\* the loop sleeps 5 s and tries again.
AfterTry(result) == "backoff"

\* The timestamp try_connect_to_strfry puts into the filter, lines 505-508.
SinceValue == now

\* Line 499: connect_async.
GwConnect(r) ==
    /\ gwState[r] = "connecting"
    /\ gwState' = [gwState EXCEPT ![r] = IF relayUp THEN "subscribing"
                                         ELSE AfterTry("err")]
    /\ UNCHANGED <<since, bus, store, lost, mempool, remote_transactions,
                   strfry_queue, published>>
    /\ UNCHANGED <<pollVars, inVars, envVars>>

\* What the Nostr relay answers a REQ with: the events it keeps whose
\* created_at is not before the filter's since.
Replay(t0) == { x.ev : x \in { y \in store : y.at >= t0 } }

\* Lines 505-521: the filter is built and the REQ sent.
GwSubscribe(r) ==
    /\ gwState[r] = "subscribing"
    /\ IF relayUp
       THEN /\ gwState' = [gwState EXCEPT ![r] = "live"]
            /\ since' = [since EXCEPT ![r] = SinceValue]
            /\ bus' = [bus EXCEPT ![r] = Replay(since'[r])]
       ELSE /\ gwState' = [gwState EXCEPT ![r] = AfterTry("err")]
            /\ UNCHANGED <<since, bus>>
    /\ UNCHANGED <<store, lost, mempool, remote_transactions, strfry_queue,
                   published>>
    /\ UNCHANGED <<pollVars, inVars, envVars>>

\* The Nostr relay forwards an event to every connection subscribed at that
\* moment, the sender's included, whose filter the event matches.
Forward(r, x) ==
    [s \in Relays |-> IF gwState[s] = "live" /\ since[s] <= x.at
                      THEN bus[s] \cup {OwnEvent(r, x.txid)}
                      ELSE bus[s]]

\* The Nostr relay keeps the event, which for an ephemeral kind it may or
\* may not do.
Keep(r, x, p) == IF p THEN store \cup {[ev |-> OwnEvent(r, x.txid), at |-> x.at]}
                      ELSE store

\* Lines 550-560: the select loop takes the next event off the channel and
\* sends it.  A failed send loses the event and leaves the loop.
GwSend(r, persist) ==
    /\ gwState[r] = "live"
    /\ inPc[r] = "idle"
    /\ strfry_queue[r] # <<>>
    /\ strfry_queue' = [strfry_queue EXCEPT ![r] = Tail(@)]
    /\ IF relayUp
       THEN /\ bus' = Forward(r, Head(strfry_queue[r]))
            /\ \E p \in persist : store' = Keep(r, Head(strfry_queue[r]), p)
            /\ UNCHANGED <<gwState, lost>>
       ELSE /\ gwState' = [gwState EXCEPT ![r] = AfterTry("ok")]
            /\ bus' = [bus EXCEPT ![r] = {}]
            /\ lost' = [lost EXCEPT ![r] = @ \cup {Head(strfry_queue[r]).txid}]
            /\ UNCHANGED store
    /\ lastDrop' = [lastDrop EXCEPT ![r] = "none"]
    /\ UNCHANGED <<since, mempool, remote_transactions, published>>
    /\ UNCHANGED <<pollVars, inPc, inEv, submitted, envVars>>

\* Lines 537-545: a Close frame, a socket error or the end of the stream
\* leaves the select loop.
GwClosed(r) ==
    /\ gwState[r] = "live"
    /\ inPc[r] = "idle"
    /\ gwState' = [gwState EXCEPT ![r] = AfterTry("ok")]
    /\ bus' = [bus EXCEPT ![r] = {}]
    /\ lastDrop' = [lastDrop EXCEPT ![r] = "none"]
    /\ UNCHANGED <<since, store, lost, mempool, remote_transactions, strfry_queue,
                   published>>
    /\ UNCHANGED <<pollVars, inPc, inEv, submitted, envVars>>

\* Line 493: the 5 s sleep ends.
GwBackoff(r) ==
    /\ gwState[r] = "backoff"
    /\ gwState' = [gwState EXCEPT ![r] = "connecting"]
    /\ UNCHANGED <<since, bus, store, lost, mempool, remote_transactions,
                   strfry_queue, published>>
    /\ UNCHANGED <<pollVars, inVars, envVars>>

\* ---------------------------------------------------- the ingress handler
\* A handler without the check of the relay_id tag.
IsOwnEventNever(r, e) == FALSE

\* Lines 585-596: the event is the receiver's own when the first value of
\* its relay_id tag parses to the receiver's relay_id.
IsOwnEvent(r, e) == Len(e.tag) > 0 /\ e.tag[1] = r

\* A handler that submits first and inserts into R afterwards.
IngressOrderSubmitFirst == <<"submit", "mark">>

\* Lines 605-612: the order of the handler's two effects.
IngressOrder == <<"mark", "submit">>

IngressAfter(pc) == IF pc = IngressOrder[1] THEN IngressOrder[2] ELSE "idle"

\* An ingress that takes every content for a transaction's.
WellFormedAlways(e) == TRUE

\* Lines 598-601: the content parses as JSON and has a string hex and a
\* string txid.  NoTx stands for a field that is missing or not a string; a
\* content that is not JSON has neither.
WellFormed(e) == e.txid # NoTx /\ e.hex # NoTx

\* Lines 530-536 and 583-603: the select loop reads an event and awaits its
\* handler; an own event is dropped, another one is parsed, and one whose
\* content does not parse or lacks a field is dropped: by the ? of line 598,
\* whose error the loop logs at line 535, or by the if let of lines 600-601.
GwRecvEvent(r, e) ==
    /\ gwState[r] = "live"
    /\ inPc[r] = "idle"
    /\ bus' = [bus EXCEPT ![r] = @ \ {e}]
    /\ IF IsOwnEvent(r, e)
       THEN /\ lastDrop' = [lastDrop EXCEPT ![r] = "own"]
            /\ UNCHANGED <<inPc, inEv>>
       ELSE IF ~WellFormed(e)
       THEN /\ lastDrop' = [lastDrop EXCEPT ![r] = "malformed"]
            /\ UNCHANGED <<inPc, inEv>>
       ELSE /\ lastDrop' = [lastDrop EXCEPT ![r] = "none"]
            /\ inPc' = [inPc EXCEPT ![r] = IngressOrder[1]]
            /\ inEv' = [inEv EXCEPT ![r] = [txid |-> e.txid, hex |-> e.hex]]
    /\ UNCHANGED <<gwState, since, store, lost, submitted, mempool,
                   remote_transactions, strfry_queue, published>>
    /\ UNCHANGED <<pollVars, envVars>>

\* An ingress whose second insert of a txid takes it out of R.
RemoteInsertToggles(remote, t) == IF t \in remote THEN remote \ {t} ELSE remote \cup {t}

\* Line 608: HashSet::insert.
RemoteInsert(remote, t) == remote \cup {t}

\* Lines 606-609: the write lock is taken, the txid inserted, the lock dropped.
IngressMark(r) ==
    /\ inPc[r] = "mark"
    /\ remote_transactions' = [remote_transactions EXCEPT
                                 ![r] = RemoteInsert(@, inEv[r].txid)]
    /\ inPc' = [inPc EXCEPT ![r] = IngressAfter("mark")]
    /\ inEv' = [inEv EXCEPT ![r] = IF IngressAfter("mark") = "idle" THEN NoEvent ELSE @]
    /\ UNCHANGED <<submitted, lastDrop, mempool, strfry_queue, published>>
    /\ UNCHANGED <<pollVars, gwVars, envVars>>

\* An ingress that forgets the txid of a transaction the node rejects.
RemoteAfterSubmitForgets(remote, t, res) ==
    IF res = "rejected" THEN remote \ {t} ELSE remote

\* Lines 612-624: every arm of the match on the submit's result logs and
\* leaves R as it is.
RemoteAfterSubmit(remote, t, res) == remote

\* Lines 612-624: sendrawtransaction.  The node accepts a transaction it
\* does not hold, answers "already in mempool" for one it holds, or rejects;
\* the handler logs and returns in every case.
IngressSubmit(r, results) ==
    /\ inPc[r] = "submit"
    /\ \E res \in results :
          /\ res = "ok" => inEv[r].hex \notin mempool[r]
          /\ res = "already" => inEv[r].hex \in mempool[r]
          /\ mempool' = [mempool EXCEPT ![r] = IF res = "ok" THEN @ \cup {inEv[r].hex}
                                                             ELSE @]
          /\ remote_transactions' = [remote_transactions EXCEPT
                                       ![r] = RemoteAfterSubmit(@, inEv[r].txid, res)]
    /\ submitted' = [submitted EXCEPT ![r] = @ \cup {inEv[r].txid}]
    /\ inPc' = [inPc EXCEPT ![r] = IngressAfter("submit")]
    /\ inEv' = [inEv EXCEPT ![r] = IF IngressAfter("submit") = "idle" THEN NoEvent ELSE @]
    /\ UNCHANGED <<lastDrop, strfry_queue, published>>
    /\ UNCHANGED <<pollVars, gwVars, envVars>>

\* -------------------------------------------------------- the environment
\* A wallet or a peer hands the node a transaction.
LocalOriginate(r, t) ==
    /\ t \notin mempool[r]
    /\ mempool' = [mempool EXCEPT ![r] = @ \cup {t}]
    /\ UNCHANGED <<remote_transactions, strfry_queue, published>>
    /\ UNCHANGED <<pollVars, gwVars, inVars, envVars>>

\* A transaction leaves the mempool: mined, replaced, expired or evicted.
Evict(r, t) ==
    /\ t \in mempool[r]
    /\ mempool' = [mempool EXCEPT ![r] = @ \ {t}]
    /\ UNCHANGED <<remote_transactions, strfry_queue, published>>
    /\ UNCHANGED <<pollVars, gwVars, inVars, envVars>>

\* The Nostr relay goes down or comes back.
RelayToggle ==
    /\ relayUp' = ~relayUp
    /\ UNCHANGED <<now, mempool, remote_transactions, strfry_queue, published>>
    /\ UNCHANGED <<pollVars, gwVars, inVars, valVars, cliVars, blkVars, portVars>>

\* A second passes.
Tick ==
    /\ now < MaxTime
    /\ now' = now + 1
    /\ UNCHANGED <<relayUp, mempool, remote_transactions, strfry_queue, published>>
    /\ UNCHANGED <<pollVars, gwVars, inVars, valVars, cliVars, blkVars, portVars>>

\* ---------------------------------------------------------- the validator
\* Pre-checks whose lower size limit is off by one.
QuickValidationChecksOffByOne(x) ==
    IF x.len = 0 THEN <<"EmptyTransaction">>
    ELSE IF ~x.hexchars THEN <<"InvalidHex">>
    ELSE IF x.len \div 2 <= MinTxBytes \/ x.len \div 2 > MaxTxBytes
         THEN <<"InvalidSize", x.len \div 2>>
         ELSE <<"Ok">>

\* quick_validation_checks, validation.rs lines 99-114.
QuickValidationChecks(x) ==
    IF x.len = 0 THEN <<"EmptyTransaction">>
    ELSE IF ~x.hexchars THEN <<"InvalidHex">>
    ELSE LET byte_len == x.len \div 2
         IN  IF byte_len < MinTxBytes \/ byte_len > MaxTxBytes
             THEN <<"InvalidSize", byte_len>>
             ELSE <<"Ok">>

\* extract_txid, lines 162-167.
ExtractTxid(x) ==
    IF ~Decodes(x) THEN <<"InvalidHex">>
    ELSE IF x.tx = NoTx THEN <<"InvalidStructure">>
    ELSE <<"Ok", x.tx>>

\* A validator that never finds a txid in its cache.
IsRecentlyProcessedNever(t) == FALSE

\* A validator whose cache entries do not expire.
IsRecentlyProcessedForever(t) == \E i \in 1..Len(tx_cache) : tx_cache[i].txid = t

\* is_recently_processed, lines 169-177: peek leaves the LRU order alone.
IsRecentlyProcessed(t) ==
    \E i \in 1..Len(tx_cache) : tx_cache[i].txid = t /\ now - tx_cache[i].at < CacheTtl

\* TransactionValidator::new, line 62: a cache_size of 0 gives the
\* capacity 1000.
Capacity(n) == IF n = 0 THEN DefaultCapacity ELSE n

\* A cache that never evicts.
LruPutUnbounded(cache, t, at) ==
    <<[txid |-> t, at |-> at]>> \o SelectSeq(cache, LAMBDA e : e.txid # t)

\* LruCache::put as cache_transaction uses it, lines 179-183: the entry
\* becomes the most recently used and the least recently used one is evicted
\* beyond the capacity.
LruPut(cache, t, at) ==
    LET rest == SelectSeq(cache, LAMBDA e : e.txid # t)
        full == <<[txid |-> t, at |-> at]>> \o rest
        cap == Capacity(config.cache_size)
    IN  SubSeq(full, 1, IF Len(full) > cap THEN cap ELSE Len(full))

\* A validator that caches the txid whatever Bitcoin Core answered.
CacheAfterAny(cache, t, res, at) == LruPut(cache, t, at)

\* validate, lines 92-96: the `?` on validate_with_bitcoin_core returns
\* before cache_transaction unless the transaction was allowed.
CacheAfter(cache, t, res, at) ==
    IF res = "allowed" THEN LruPut(cache, t, at) ELSE cache

\* A validator that runs the pre-check whatever the configuration says.
PrecheckAlways(cfg, x) == QuickValidationChecks(x)

\* validate, lines 87-89: the pre-check runs only when it is enabled.
Precheck(cfg, x) ==
    IF cfg.enable_precheck THEN QuickValidationChecks(x) ELSE <<"Ok">>

\* The call of caller c returns ret.
ValReturn(c, x, ret) ==
    /\ valPc' = [valPc EXCEPT ![c] = "idle"]
    /\ valArg' = [valArg EXCEPT ![c] = NoInput]
    /\ prev' = [arg |-> x, at |-> now, ret |-> ret]

\* validate, lines 73-92: from the call to the testmempoolaccept request,
\* which is awaited.
ValStart(c, x) ==
    /\ valPc[c] = "idle"
    /\ IF ~config.enable_validation
       THEN ValReturn(c, x, <<"Ok">>) /\ UNCHANGED tmaAt
       ELSE LET e == ExtractTxid(x)
                q == Precheck(config, x)
            IN  IF e[1] # "Ok"
                THEN ValReturn(c, x, e) /\ UNCHANGED tmaAt
                ELSE IF IsRecentlyProcessed(x.tx)
                THEN ValReturn(c, x, <<"RecentlyProcessed", x.tx>>) /\ UNCHANGED tmaAt
                ELSE IF q[1] # "Ok"
                THEN ValReturn(c, x, q) /\ UNCHANGED tmaAt
                ELSE /\ valPc' = [valPc EXCEPT ![c] = "core"]
                     /\ valArg' = [valArg EXCEPT ![c] = x]
                     /\ tmaAt' = [tmaAt EXCEPT ![x.tx] = now]
                     /\ UNCHANGED prev
    /\ UNCHANGED <<config, tx_cache, okAt, quick>>
    /\ UNCHANGED <<mempool, remote_transactions, strfry_queue, published>>
    /\ UNCHANGED <<pollVars, gwVars, inVars, relayUp, now, cliVars, blkVars, portVars>>

\* validate, lines 92-96, with validate_with_bitcoin_core, lines 124-159:
\* the answer to testmempoolaccept arrives; only allowed = true is cached.
ValCore(c, res) ==
    /\ valPc[c] = "core"
    /\ tx_cache' = CacheAfter(tx_cache, valArg[c].tx, res, now)
    /\ IF res = "allowed"
       THEN /\ okAt' = [okAt EXCEPT ![valArg[c].tx] = now]
            /\ ValReturn(c, valArg[c], <<"Ok">>)
       ELSE /\ ValReturn(c, valArg[c], IF res = "rejected"
                                          THEN <<"BitcoinCoreRejection">>
                                          ELSE <<"RpcError">>)
            /\ UNCHANGED okAt
    /\ UNCHANGED <<config, tmaAt, quick>>
    /\ UNCHANGED <<mempool, remote_transactions, strfry_queue, published>>
    /\ UNCHANGED <<pollVars, gwVars, inVars, relayUp, now, cliVars, blkVars, portVars>>

\* A direct call of quick_validation_checks, as the unit tests make it.
CallQuickChecks(c, x) ==
    /\ quick' = [quick EXCEPT ![c] = [arg |-> x, ret |-> QuickValidationChecks(x)]]
    /\ UNCHANGED <<config, tx_cache, valPc, valArg, tmaAt, prev, okAt>>
    /\ UNCHANGED <<mempool, remote_transactions, strfry_queue, published>>
    /\ UNCHANGED <<pollVars, gwVars, inVars, relayUp, now, cliVars, blkVars, portVars>>

\* ------------------------------------------------------ inbound clients
\* The contents of the kind-20010 events a client sends: the empty string,
\* one character, and strings of 2 * MinTxBytes characters.
CliInputs ==
    { x \in HexInputs : x.len \in {0, 1, 2 * MinTxBytes} /\ x.tx \in TXIDS \cup {NoTx} }

\* handle_submit_tx, lines 209-225: the content passes the format test,
\* hex::decode and deserialize.
Deserializes(x) == x.len > 0 /\ x.len % 2 = 0 /\ Decodes(x) /\ x.tx # NoTx

\* The kind-20011 event send_tx_response builds (lines 283-294) for the
\* n-th submission, whose content is x and whose sendrawtransaction, if
\* issued, ended as rpc.
TxResponse(n, x, rpc) ==
    IF x.len = 0 \/ x.len % 2 # 0
    THEN [n |-> n, success |-> FALSE, message |-> "Invalid transaction hex format",
          txid |-> NoTx]
    ELSE IF ~Decodes(x)
    THEN [n |-> n, success |-> FALSE, message |-> "Invalid hex encoding", txid |-> NoTx]
    ELSE IF x.tx = NoTx
    THEN [n |-> n, success |-> FALSE, message |-> "Invalid transaction format",
          txid |-> NoTx]
    ELSE IF rpc = "ok"
    THEN [n |-> n, success |-> TRUE, message |-> "Transaction accepted", txid |-> x.tx]
    ELSE [n |-> n, success |-> FALSE, message |-> rpc, txid |-> x.tx]

\* broadcast::Sender::send on the channel of line 125: at capacity the
\* oldest value is released.
ChanSend(ch, e) ==
    IF Len(ch) < ClientChannel THEN Append(ch, e) ELSE Append(Tail(ch), e)

\* handle_submit_tx, lines 202-247, with submit_to_bitcoin_node and
\* send_tx_response: the handler of one kind-20010 event, from the read of
\* the socket to the send on the client's channel.  With the forwarding task
\* gone the channel has no receiver and the send fails, which line 297
\* ignores; a send that releases a value the task has not received leaves
\* the task lagging.
ClientSubmit(r, inputs, results) ==
    /\ cliOpen
    /\ Len(cliLog) < MaxSubmit
    /\ \E x \in inputs : \E res \in results :
          LET rpc == IF Deserializes(x) THEN res ELSE "none"
              e == TxResponse(Len(cliLog) + 1, x, rpc)
          IN  /\ rpc = "ok" => x.tx \notin mempool[r]
              /\ rpc = "already" => x.tx \in mempool[r]
              /\ mempool' = [mempool EXCEPT ![r] = IF rpc = "ok" THEN @ \cup {x.tx}
                                                                  ELSE @]
              /\ cliLog' = Append(cliLog, [arg |-> x, rpc |-> rpc])
              /\ IF cliTask = "ended"
                 THEN UNCHANGED <<cliChan, cliTask>>
                 ELSE /\ cliChan' = ChanSend(cliChan, e)
                      /\ cliTask' = IF Len(cliChan) < ClientChannel THEN cliTask
                                                                    ELSE "lagged"
    /\ UNCHANGED <<cliOpen, clients, cliGot, remote_transactions, strfry_queue,
                   published>>
    /\ UNCHANGED <<pollVars, gwVars, inVars, relayUp, now, valVars, blkVars, portVars>>

\* The forwarding task, lines 133-141: recv returns the next event, which
\* is written to the socket, or Err(Lagged) when a value it had not
\* received was released, and then the while let loop is over and the
\* receiver dropped.
ClientForward ==
    /\ IF cliTask = "lagged"
       THEN /\ cliTask' = "ended"
            /\ cliChan' = <<>>
            /\ UNCHANGED cliGot
       ELSE /\ cliTask = "running"
            /\ cliChan # <<>>
            /\ IF cliOpen
               THEN /\ cliGot' = Append(cliGot, Head(cliChan))
                    /\ cliChan' = Tail(cliChan)
                    /\ UNCHANGED cliTask
               ELSE /\ cliTask' = "ended"
                    /\ cliChan' = <<>>
                    /\ UNCHANGED cliGot
    /\ UNCHANGED <<cliOpen, clients, cliLog, mempool, remote_transactions,
                   strfry_queue, published>>
    /\ UNCHANGED <<pollVars, gwVars, inVars, relayUp, now, valVars, blkVars, portVars>>

\* Lines 144-160: the read loop ends with a Close frame (break) or with the
\* end of the stream (next() returns None); the task is aborted and the
\* entry removed from the map.
ClientClose ==
    /\ cliOpen
    /\ cliOpen' = FALSE
    /\ cliTask' = "ended"
    /\ cliChan' = <<>>
    /\ clients' = clients \ {ClientId}
    /\ UNCHANGED <<cliLog, cliGot, mempool, remote_transactions, strfry_queue,
                   published>>
    /\ UNCHANGED <<pollVars, gwVars, inVars, relayUp, now, valVars, blkVars, portVars>>

\* Line 145: the read gives a WebSocket error, and `msg?` returns it from
\* handle_connection: lines 158-159 are not reached, the JoinHandle of the
\* forwarding task is dropped, which does not stop the task, and the
\* sender stays in the map.
ClientReadError ==
    /\ cliOpen
    /\ cliOpen' = FALSE
    /\ UNCHANGED <<clients, cliChan, cliTask, cliLog, cliGot, mempool,
                   remote_transactions, strfry_queue, published>>
    /\ UNCHANGED <<pollVars, gwVars, inVars, relayUp, now, valVars, blkVars, portVars>>

\* ------------------------------------------------------------- the ports
\* u16 addition and subtraction: with overflow checks an overflow panics,
\* without them the result wraps.
AddU16(a, b, checks) ==
    IF a + b >= U16Size
    THEN IF checks THEN <<"panic">> ELSE <<"ok", (a + b) % U16Size>>
    ELSE <<"ok", a + b>>

SubU16(a, b, checks) ==
    IF a - b < 0
    THEN IF checks THEN <<"panic">> ELSE <<"ok", (a - b + U16Size) % U16Size>>
    ELSE <<"ok", a - b>>

\* main, line 653: 7779 + relay_id - 1, the addition first.
ListenPort(id, checks) ==
    LET sum == AddU16(ListenBase, id, checks)
    IN  IF sum[1] = "panic" THEN sum ELSE SubU16(sum[2], 1, checks)

\* Lines 259, 427 and 462: 18443 + (self.relay_id - 1), the subtraction
\* first.
RpcPort(id, checks) ==
    LET dec == SubU16(id, 1, checks)
    IN  IF dec[1] = "panic" THEN dec ELSE AddU16(RpcBase, dec[2], checks)

\* main, lines 651-654, started without a port argument: the relay id is
\* parsed and the default listen port computed.
PortMain(id, checks) ==
    /\ portPc = "start"
    /\ relay_id' = id
    /\ overflow_checks' = checks
    /\ LET p == ListenPort(id, checks)
       IN  IF p[1] = "panic"
           THEN portPc' = "panicked" /\ UNCHANGED port
           ELSE portPc' = "running" /\ port' = p[2]
    /\ UNCHANGED rpc_port
    /\ UNCHANGED <<mempool, remote_transactions, strfry_queue, published>>
    /\ UNCHANGED <<pollVars, gwVars, inVars, relayUp, now, valVars, cliVars, blkVars>>

\* The first RPC call builds its URL.
PortRpc ==
    /\ portPc = "running"
    /\ LET p == RpcPort(relay_id, overflow_checks)
       IN  IF p[1] = "panic"
           THEN portPc' = "rpc_panicked" /\ UNCHANGED rpc_port
           ELSE portPc' = "called" /\ rpc_port' = p[2]
    /\ UNCHANGED <<relay_id, overflow_checks, port>>
    /\ UNCHANGED <<mempool, remote_transactions, strfry_queue, published>>
    /\ UNCHANGED <<pollVars, gwVars, inVars, relayUp, now, valVars, cliVars, blkVars>>

\* -------------------------------------------------------- the block relay
\* A block relay that records the tip only when its block was fetched.
LastAfterAttemptOnSuccess(last, current_hash, block) ==
    IF block = "ok" THEN current_hash ELSE last

\* main.rs line 65: the assignment stands after the match on get_block.
LastAfterAttempt(last, current_hash, block) == current_hash

\* The events of one pass over block.txdata, lines 46-60: coinbase
\* transactions are skipped, and a failed send is logged and passed over.
SentOf(h, sends) ==
    { BlockTxs(h)[i].txid : i \in { j \in 1..Len(BlockTxs(h)) :
                                      ~BlockTxs(h)[j].coinbase /\ sends[j] = "ok" } }

\* main.rs lines 36-72, one iteration of the loop up to its sleep: best is
\* the outcome of get_best_block_hash, block of get_block, sends of
\* send_tx_event for each transaction of the block.
BlkPoll(bests, blocks) ==
    /\ blkPc = "poll"
    /\ blkPc' = "sleep"
    /\ \E best \in bests : \E block \in blocks :
       \E sends \in [1..Len(BlockTxs(tip)) -> {"ok", "err"}] :
          LET current_hash == tip
          IN  IF best = "err"
              THEN UNCHANGED <<last_block_hash, handled, blkSent, blkFailed, blkIdle>>
              ELSE IF current_hash = last_block_hash
              THEN /\ blkIdle' = TRUE
                   /\ UNCHANGED <<last_block_hash, handled, blkSent, blkFailed>>
              ELSE /\ last_block_hash' = LastAfterAttempt(last_block_hash,
                                                          current_hash, block)
                   /\ handled' = [handled EXCEPT ![current_hash] = @ + 1]
                   /\ blkSent' = IF block = "ok"
                                 THEN blkSent \cup SentOf(current_hash, sends)
                                 ELSE blkSent
                   /\ blkFailed' = IF block = "ok" THEN blkFailed \ {current_hash}
                                                  ELSE blkFailed \cup {current_hash}
                   /\ blkIdle' = FALSE
    /\ UNCHANGED tip
    /\ UNCHANGED <<mempool, remote_transactions, strfry_queue, published>>
    /\ UNCHANGED <<pollVars, gwVars, inVars, relayUp, now, valVars, cliVars, portVars>>

\* Line 74: the 5 s sleep ends.
BlkSleep ==
    /\ blkPc = "sleep"
    /\ blkPc' = "poll"
    /\ UNCHANGED <<tip, last_block_hash, handled, blkSent, blkFailed, blkIdle>>
    /\ UNCHANGED <<mempool, remote_transactions, strfry_queue, published>>
    /\ UNCHANGED <<pollVars, gwVars, inVars, relayUp, now, valVars, cliVars, portVars>>

\* The node's best block changes: a block is mined, or a reorganisation or
\* invalidateblock makes another block, a former tip included, the best one.
NewTip(h) ==
    /\ h # tip
    /\ handled[h] < MaxHandle
    /\ tip' = h
    /\ UNCHANGED <<last_block_hash, blkPc, handled, blkSent, blkFailed, blkIdle>>
    /\ UNCHANGED <<mempool, remote_transactions, strfry_queue, published>>
    /\ UNCHANGED <<pollVars, gwVars, inVars, relayUp, now, valVars, cliVars, portVars>>

\* ------------------------------------------------------- specifications
\* The poller's steps; oks and results are the outcomes its RPC calls may
\* have.
Poller(r, oks, results) ==
    \/ PollInit(r, oks)
    \/ PollFetch(r, oks)
    \/ PollScan(r)
    \/ PollGetRaw(r, results)
    \/ PollPrune(r)
    \/ PollSleep(r)

\* The steps the gateway task takes by itself; persist says whether the
\* Nostr relay keeps the events it is sent.
Gateway(r, results, persist) ==
    \/ GwConnect(r)
    \/ GwSubscribe(r)
    \/ GwSend(r, persist)
    \/ GwBackoff(r)
    \/ IngressMark(r)
    \/ IngressSubmit(r, results)

\* The Nostr relay delivers an event it forwarded.
Deliver(r) == \E e \in bus[r] : GwRecvEvent(r, e)

\* One relay, its node, a reachable Nostr relay and a bus on which other
\* participants publish.  The Nostr relay keeps no ephemeral event; what a
\* keeping one would send again is among the ForeignEvents.
Next ==
    \/ Poller(Self, BOOLEAN, FetchResults)
    \/ Gateway(Self, SubmitResults, {FALSE})
    \/ GwClosed(Self)
    \/ \E e \in bus[Self] \cup ForeignEvents : GwRecvEvent(Self, e)
    \/ \E t \in TXIDS : LocalOriginate(Self, t)
    \/ \E t \in TXIDS : Evict(Self, t)

Spec == Init /\ [][Next]_vars

\* Events as another relay builds them.
PeerEvents == { OwnEvent(s, t) : s \in Relays \ {Self}, t \in TXIDS }

\* The same relay with a Nostr relay that goes down and comes back, and a
\* clock; the events it reads are PeerEvents and nothing leaves the mempool.
\* The gateway and poller tasks are scheduled fairly: a step a task can take
\* is taken.
NextGw ==
    \/ Poller(Self, BOOLEAN, FetchResults)
    \/ Gateway(Self, SubmitResults, {FALSE})
    \/ GwClosed(Self)
    \/ \E e \in bus[Self] \cup PeerEvents : GwRecvEvent(Self, e)
    \/ \E t \in TXIDS : LocalOriginate(Self, t)
    \/ RelayToggle
    \/ Tick

SpecGw ==
    /\ Init
    /\ [][NextGw]_vars
    /\ WF_vars(Gateway(Self, SubmitResults, {FALSE}))
    /\ WF_vars(Poller(Self, BOOLEAN, FetchResults))

\* A federation: every relay beside its own node, all on one bus, starting
\* with empty mempools.  The conditions are the kindest to propagation: no
\* RPC call fails, the nodes accept what they are sent, nothing leaves a
\* mempool, the Nostr relay stays up, keeps every event and answers a REQ
\* with the ones its filter matches, transactions are submitted once every
\* relay has subscribed and taken its initial snapshot, and connections are
\* closed only before MaxTime.
InitFed == InitOf(Relays, {})

FedOriginate(r, t) ==
    /\ \A s \in Relays : since[s] # NoSince /\ pollPc[s] # "init"
    /\ LocalOriginate(r, t)

FedClosed(r) ==
    /\ now < MaxTime
    /\ GwClosed(r)

NextFed ==
    \/ \E r \in Relays : Poller(r, {TRUE}, {"ok"})
    \/ \E r \in Relays : Gateway(r, {"ok", "already"}, {TRUE})
    \/ \E r \in Relays : Deliver(r)
    \/ \E r \in Relays : FedClosed(r)
    \/ \E r \in Relays : \E t \in FedTxids : FedOriginate(r, t)
    \/ Tick

\* Every task is scheduled fairly, the Nostr relay delivers what it
\* forwarded, and time passes.
SpecFed ==
    /\ InitFed
    /\ [][NextFed]_vars
    /\ WF_vars(Tick)
    /\ \A r \in Relays : /\ WF_vars(Poller(r, {TRUE}, {"ok"}))
                         /\ WF_vars(Gateway(r, {"ok", "already"}, {TRUE}))
                         /\ WF_vars(Deliver(r))

\* The tx_hex strings the validate calls are made with: one character, and
\* the two lengths around the lower size limit.
ValInputs == { x \in HexInputs : x.len \in {1, 2 * MinTxBytes - 2, 2 * MinTxBytes} }
CoreResults == {"allowed", "rejected", "rpc_err"}

\* A validator under any configuration, called by two tasks, and a clock.
InitVal == ValInit(Configs) /\ CliInit /\ BlkInit /\ PortInit /\ EngineInit({}, {})

NextVal ==
    \/ \E c \in Callers : \E x \in ValInputs : ValStart(c, x)
    \/ \E c \in Callers : \E res \in CoreResults : ValCore(c, res)
    \/ Tick

SpecVal == InitVal /\ [][NextVal]_vars

\* One task validating three well-formed transactions that Bitcoin Core
\* allows, under the default flags and a cache_size of 0, CacheSize or
\* CacheSize + 1.
CacheConfigs ==
    { [DefaultConfig EXCEPT !.cache_size = n] : n \in {0, CacheSize, CacheSize + 1} }
CacheInputs ==
    { [len |-> 2 * MinTxBytes, hexchars |-> TRUE, tx |-> t] : t \in CacheTxids }

InitCache == ValInit(CacheConfigs) /\ CliInit /\ BlkInit /\ PortInit /\ EngineInit({}, {})

NextCache ==
    \/ \E x \in CacheInputs : ValStart(Self, x)
    \/ ValCore(Self, "allowed")
    \/ Tick

SpecCache == InitCache /\ [][NextCache]_vars

\* The block relay beside a node whose tip changes and whose RPC calls and
\* sends may fail.
NextBlock ==
    \/ BlkPoll({"ok", "err"}, {"ok", "err"})
    \/ BlkSleep
    \/ \E h \in Hashes : NewTip(h)

SpecBlock == Init /\ [][NextBlock]_vars

\* The relay ids tried: the small ones and those around the values at
\* which a computation leaves the u16 range.
RelayIds ==
    (0..MaxSmallId)
       \cup { U16Size - RpcBase - 1 + d : d \in {0, 1, 2} }
       \cup { U16Size - ListenBase - 1 + d : d \in {0, 1, 2} }
       \cup { U16Size - 1 }

\* main started with any of the relay ids, in a debug or a release build,
\* and its first RPC call.
NextPort ==
    \/ \E id \in RelayIds : \E checks \in BOOLEAN : PortMain(id, checks)
    \/ PortRpc

SpecPort == Init /\ [][NextPort]_vars

\* quick_validation_checks called with every string of HexInputs.
NextQuick == \E c \in Callers : \E x \in HexInputs : CallQuickChecks(c, x)

SpecQuick == Init /\ [][NextQuick]_vars

\* Events whose content is not JSON or lacks hex or txid, with any relay_id.
MalformedEvents ==
    { Event(t, h, <<s>>) : t \in TXIDS \cup {NoTx}, h \in TXIDS \cup {NoTx},
                           s \in Relays } \ ForeignEvents

\* Events whose `txid` field is not the txid of the transaction in their
\* `hex` field: the content is the sender's JSON and is not verified.
WrongTxid == NumTx + 1
MislabelledEvents == { Event(WrongTxid, h, <<s>>) : h \in TXIDS, s \in Relays }

\* Events whose relay_id tag lists two values.
ListedEvents == { Event(t, t, <<s1, s2>>) : t \in TXIDS, s1 \in Relays, s2 \in Relays }

\* The gateway and its ingress handler alone, reading events of every
\* kind from a Nostr relay that goes down and comes back, beside a node
\* whose mempool changes.
IngressEvents ==
    ForeignEvents \cup MalformedEvents \cup ListedEvents \cup MislabelledEvents

NextIngress ==
    \/ GwConnect(Self)
    \/ GwSubscribe(Self)
    \/ GwClosed(Self)
    \/ GwBackoff(Self)
    \/ \E e \in IngressEvents : GwRecvEvent(Self, e)
    \/ IngressMark(Self)
    \/ IngressSubmit(Self, SubmitResults)
    \/ \E t \in TXIDS : LocalOriginate(Self, t)
    \/ \E t \in TXIDS : Evict(Self, t)
    \/ RelayToggle
    \/ Tick

SpecIngress == Init /\ [][NextIngress]_vars

\* One inbound client of the relay and the relay's node, which may drop a
\* transaction from its mempool.
NextClient ==
    \/ ClientSubmit(Self, CliInputs, SubmitResults)
    \/ ClientForward
    \/ ClientClose
    \/ ClientReadError
    \/ \E t \in TXIDS : Evict(Self, t)

SpecClient == Init /\ [][NextClient]_vars

\* The relay of Spec with an inbound client that submits transactions.
TxInputs == { x \in CliInputs : x.len = 1 \/ x.tx # NoTx }

NextSubmit ==
    \/ Next
    \/ ClientSubmit(Self, TxInputs, SubmitResults)

SpecSubmit == Init /\ [][NextSubmit]_vars

\* ------------------------------------------------------------ properties
\* The step enqueues a publish of t on relay r's channel.
Publishes(r, t) == strfry_queue'[r] = Enqueue(strfry_queue[r], t)

\* The step is the return of the getrawtransaction issued for t.
FetchReturns(r, t) == pollPc[r] = "getraw" /\ cur_txid[r] = t /\ raw_tx'[r] # raw_tx[r]

\* C1 as stated: in a poll tick, every new txid t of the snapshot gets a
\* publish enqueued if and only if t is not in R when it is checked; so the
\* handling of a txid the check found outside R always enqueues a publish.
C1_PublishIffNotRemote ==
    [][\A t \in TXIDS :
          /\ Publishes(Self, t) => pollPc[Self] = "getraw" /\ cur_txid[Self] = t
          /\ FetchReturns(Self, t) => Publishes(Self, t)]_vars

\* C1 as amended: a new txid t of the snapshot goes on to getrawtransaction
\* exactly when t is not in R at the check, never when it is, and its publish
\* is enqueued exactly when that call returns a transaction that decodes and
\* deserializes.
C1_PublishIffNotRemoteAndFetched ==
    [][\A t \in TXIDS :
          /\ (pollPc[Self] = "scan" /\ t \in pending[Self] \ pending'[Self]
                  /\ t \notin known_txids[Self])
               => (pollPc'[Self] = "getraw" /\ cur_txid'[Self] = t
                      <=> t \notin remote_transactions[Self])
          /\ (pollPc'[Self] = "getraw" /\ pollPc[Self] # "getraw" /\ cur_txid'[Self] = t)
               => (t \notin remote_transactions[Self] /\ t \notin known_txids[Self]
                      /\ t \in current_txids[Self])
          /\ Publishes(Self, t) <=> (FetchReturns(Self, t) /\ raw_tx'[Self] = "ok")]_vars

\* getrawtransaction has just returned a transaction for a txid the check
\* found outside R, and its publish is on the channel.
C1_Witness ==
    /\ raw_tx[Self] = "ok"
    /\ \E t \in TXIDS : /\ t \in published[Self]
                         /\ t \in known_txids[Self]
                         /\ strfry_queue[Self] # <<>>

\* C2: no publish is enqueued for a transaction the engine has received in a
\* kind-20012 event, whatever the interleaving of ingress and poller (stated
\* for a relay whose initial getrawmempool succeeded).
C2_NoPublishOfReceived ==
    [][\A t \in TXIDS :
          (initFetch[Self] = "ok" /\ Publishes(Self, t))
             => t \notin remote_transactions[Self]]_vars

\* C3: a transaction that never arrived over Nostr is published at most once
\* in the relay's lifetime, also after it leaves the mempool and re-enters
\* (stated for a relay whose initial getrawmempool succeeded).
C3_PublishedOnce ==
    [][\A t \in TXIDS :
          (initFetch[Self] = "ok" /\ Publishes(Self, t)
              /\ t \notin remote_transactions[Self])
             => t \notin published[Self]]_vars

\* The events the relay may read in the single-relay specification.
Readable == bus[Self] \cup ForeignEvents

\* C4: reading an event whose relay_id tag is the receiver's own id has no
\* side effect: R, the mempool (no sendrawtransaction), the channel and the
\* handler's position are unchanged, and the handler is not entered.
C4_OwnEventNoEffect ==
    [][\A e \in Readable :
          (e.tag = <<Self>> /\ GwRecvEvent(Self, e))
             => /\ remote_transactions' = remote_transactions
                /\ mempool' = mempool
                /\ submitted' = submitted
                /\ strfry_queue' = strfry_queue
                /\ inPc'[Self] = "idle"
                /\ inEv'[Self] = NoEvent]_vars

\* An own event was read and dropped with the handler idle.
C4_Witness ==
    /\ lastDrop[Self] = "own"
    /\ inPc[Self] = "idle"
    /\ gwState[Self] = "live"

\* C5: whenever the handler is about to issue, or has issued, the
\* sendrawtransaction of an event, the event's txid is in R.
C5_MarkBeforeSubmit ==
    /\ inPc[Self] = "submit" => inEv[Self].txid \in remote_transactions[Self]
    /\ submitted[Self] \subseteq remote_transactions[Self]

\* A submit was issued for an event whose txid is in R, and the node took
\* the transaction.
C5_Witness ==
    \E t \in TXIDS : /\ t \in submitted[Self]
                     /\ t \in remote_transactions[Self]
                     /\ t \in mempool[Self]

\* C6: every txid of R has been submitted exactly once by the ingress: once
\* the handler is idle none is unsubmitted, and no submit is issued for a
\* txid already submitted.
C6_SubmittedExactlyOnce ==
    /\ [](inPc[Self] = "idle" => remote_transactions[Self] \subseteq submitted[Self])
    /\ [][\A t \in TXIDS :
             (inPc[Self] = "submit" /\ inPc'[Self] # "submit" /\ inEv[Self].txid = t)
                => t \notin submitted[Self]]_vars

\* C7: with the initial snapshot taken, a txid that the poller first met in
\* a later snapshot and that is not in R has had its one event published.
C7_LaterTxidPublished ==
    \A t \in TXIDS :
        (/\ initFetch[Self] = "ok"
         /\ t \in known_txids[Self]
         /\ t \notin initKnown[Self]
         /\ t \notin remote_transactions[Self])
           => t \in published[Self]

\* The first half of C7, which holds: with the initial snapshot taken, no
\* event is published for a txid that has been in every snapshot since; a
\* publish is enqueued only for a txid outside M, and exactly when its
\* getrawtransaction returns a transaction that deserializes, so a txid that
\* stays in M gets no second event.
C7_InitialSnapshotSilent ==
    /\ [](initFetch[Self] = "ok" => initKnown[Self] \cap published[Self] = {})
    /\ [](initKnown[Self] \subseteq known_txids[Self])
    /\ [][\A t \in TXIDS :
             /\ Publishes(Self, t) => (t \notin known_txids[Self]
                                         /\ t \notin initKnown[Self]
                                         /\ raw_tx'[Self] = "ok")
             /\ (pollPc[Self] = "getraw" /\ cur_txid[Self] = t /\ raw_tx'[Self] = "ok")
                  => Publishes(Self, t)]_vars

\* A txid of the initial snapshot is still in M, unpublished, at the end of
\* a tick.
C7_Witness ==
    /\ initFetch[Self] = "ok"
    /\ pollPc[Self] = "sleep"
    /\ initKnown[Self] # {}
    /\ initKnown[Self] \cap published[Self] = {}

\* C8: a transaction in one node's mempool is eventually in every other
\* node's mempool.
C8_Convergence ==
    \A t \in FedTxids : \A r \in Relays : \A s \in Relays :
        (t \in mempool[r]) ~> (t \in mempool[s])

\* C9: once a REQ has been sent, every later REQ carries the same since.
C9_SinceFixed ==
    [][since[Self] # NoSince => since'[Self] = since[Self]]_vars

\* The gateway's transitions: a failure in Connecting, Subscribing or Live
\* leads to the backoff, the backoff to Connecting.
GwTransitions ==
    { <<"connecting", "subscribing">>, <<"connecting", "backoff">>,
      <<"subscribing", "live">>, <<"subscribing", "backoff">>,
      <<"live", "backoff">>, <<"backoff", "connecting">> }

\* C10: the gateway is never Closed, every change of its state is one of
\* GwTransitions, and if the Nostr relay stays reachable from some point on
\* the gateway is Live again and again.
C10_GatewayNeverStops ==
    /\ [](gwState[Self] \in {"connecting", "subscribing", "live", "backoff"})
    /\ [][gwState'[Self] # gwState[Self]
            => <<gwState[Self], gwState'[Self]>> \in GwTransitions]_vars
    /\ (<>[]relayUp) => []<>(gwState[Self] = "live")

\* The gateway, Live before, waits in the backoff with the Nostr relay down.
C10_Witness ==
    /\ gwState[Self] = "backoff"
    /\ since[Self] # NoSince
    /\ ~relayUp

\* The channel of relay r holds an event for t.
Queued(r, t) == \E i \in 1..Len(strfry_queue[r]) : strfry_queue[r][i].txid = t

\* C11: when the event of a locally originated t was taken off the channel
\* and its send failed, and t is in the local mempool, a publish of t is
\* enqueued again (or, short of that, t arrives over Nostr or the poller has
\* ended).
C11_LostPublishReenqueued ==
    \A t \in TXIDS :
        (/\ t \in lost[Self]
         /\ t \in mempool[Self]
         /\ t \notin remote_transactions[Self]
         /\ initFetch[Self] = "ok"
         /\ ~Queued(Self, t))
            ~> (\/ Queued(Self, t)
                \/ t \in remote_transactions[Self]
                \/ pollPc[Self] = "dead")

\* C12: no failure ends a long-lived task: the poller has not returned from
\* monitor_mempool and the gateway has not left its reconnect loop.
C12_NoTaskTerminates ==
    /\ pollPc[Self] # "dead"
    /\ gwState[Self] # "closed"

\* ------------------------------------------------------------ validator
InCache(t) == \E i \in 1..Len(tx_cache) : tx_cache[i].txid = t

\* C13: for every input hex, a second validate(hex) call made within the TTL
\* of the call before it returns RecentlyProcessed(txid) and leaves the cache
\* unchanged.
C13_SecondCallRecentlyProcessed ==
    [][\A c \in Callers : \A x \in ValInputs :
          (/\ ValStart(c, x)
           /\ prev.arg = x /\ prev.at # NoCall /\ now - prev.at < CacheTtl)
              => (/\ valPc'[c] = "idle"
                  /\ prev'.ret = <<"RecentlyProcessed", x.tx>>
                  /\ tx_cache' = tx_cache)]_vars

\* C13, as the code has it: with validation enabled, a validate(hex) call
\* made within the TTL of a validation of the same txid that Bitcoin Core
\* allowed, whose cache entry has not been evicted, returns
\* RecentlyProcessed(txid) and leaves the cache unchanged.
C13_CachedCallRecentlyProcessed ==
    [][\A c \in Callers : \A x \in ValInputs :
          (/\ ValStart(c, x)
           /\ config.enable_validation
           /\ x.tx # NoTx
           /\ okAt[x.tx] # NoCall /\ now - okAt[x.tx] < CacheTtl
           /\ InCache(x.tx))
              => (/\ valPc'[c] = "idle"
                  /\ prev'.ret = <<"RecentlyProcessed", x.tx>>
                  /\ tx_cache' = tx_cache)]_vars

\* C13 witness: a call has returned RecentlyProcessed while the cache is full.
C13_Witness ==
    /\ prev.ret[1] = "RecentlyProcessed"
    /\ Len(tx_cache) = CacheSize

\* Caller c sends a testmempoolaccept request for txid t in this step.
IssuesTestAccept(c, t) ==
    /\ valPc[c] = "idle"
    /\ valPc'[c] = "core"
    /\ valArg'[c].tx = t

\* C14: testmempoolaccept is issued at most once per txid per TTL window: a
\* request for t is sent only when none was sent for t before, or the last
\* one is at least the TTL old.
C14_OnceTestAcceptPerWindow ==
    [][\A c \in Callers : \A t \in ValTxids :
          IssuesTestAccept(c, t)
              => (tmaAt[t] = NoCall \/ now - tmaAt[t] >= CacheTtl)]_vars

\* C15: quick_validation_checks agrees with the reference function: the empty
\* string gives EmptyTransaction; a string with a character that is not a hex
\* digit gives InvalidHex; otherwise, with n = floor(len / 2), n < 60 or
\* n > 400000 gives InvalidSize(n), and anything else is accepted.
C15_QuickChecksAgree ==
    \A c \in Callers :
        LET x == quick[c].arg
            r == quick[c].ret
            n == x.len \div 2
        IN  quick[c] # NoQuick =>
              /\ x.len = 0 => r = <<"EmptyTransaction">>
              /\ (x.len > 0 /\ ~x.hexchars) => r = <<"InvalidHex">>
              /\ (x.len > 0 /\ x.hexchars /\ (n < 60 \/ n > 400000))
                     => r = <<"InvalidSize", n>>
              /\ (x.len > 0 /\ x.hexchars /\ n >= 60 /\ n <= 400000)
                     => r = <<"Ok">>

\* C15 witness: the calls at the two limits: 60 bytes accepted, 400001
\* rejected.
C15_Witness ==
    /\ quick[1].arg.len = 120 /\ quick[1].arg.hexchars /\ quick[1].ret = <<"Ok">>
    /\ quick[2].arg.len = 800002 /\ quick[2].arg.hexchars
    /\ quick[2].ret = <<"InvalidSize", 400001>>

\* ------------------------------------------------------- inbound clients
\* The n-th submission's answer is among the events of q.
AnswerIn(q, n) == \E i \in 1..Len(q) : q[i].n = n

\* What C16 says of the content of the answers and of the handler: no
\* submission is answered twice; success is true exactly when
\* sendrawtransaction succeeded; sendrawtransaction is issued only for a
\* content that decodes and deserializes; handling a submission leaves the
\* connection open.
C16_AnswersAreRight ==
    /\ [](\A i, j \in 1..Len(cliGot) : cliGot[i].n = cliGot[j].n => i = j)
    /\ [](\A i \in 1..Len(cliGot) :
             /\ cliGot[i].success = (cliLog[cliGot[i].n].rpc = "ok")
             /\ cliGot[i] = TxResponse(cliGot[i].n, cliLog[cliGot[i].n].arg,
                                       cliLog[cliGot[i].n].rpc))
    /\ [](\A n \in 1..Len(cliLog) : cliLog[n].rpc # "none" => Deserializes(cliLog[n].arg))
    /\ [][cliLog' # cliLog => cliOpen']_vars

\* C16: every kind-20010 submission of a client is answered with exactly
\* one kind-20011 event to that client: while the connection is open the
\* answer to each submission handled has been written to the socket or is
\* on the client's channel, no submission is answered twice, success is true
\* exactly when sendrawtransaction succeeded, sendrawtransaction is issued
\* only when the content decodes and deserializes, and the connection stays
\* open.
C16_EverySubmissionAnswered ==
    /\ [](cliOpen => \A n \in 1..Len(cliLog) : AnswerIn(cliGot, n) \/ AnswerIn(cliChan, n))
    /\ C16_AnswersAreRight

\* The node accepted transaction t from a client's submission.
ClientAccepted(t) ==
    \E n \in 1..Len(cliLog) : cliLog[n].arg.tx = t /\ cliLog[n].rpc = "ok"

\* The first half of C17, which holds: handling a client's submission
\* changes neither R nor the outbound queue.
C17_SubmissionFrame ==
    [][cliLog' # cliLog => /\ remote_transactions' = remote_transactions
                           /\ strfry_queue' = strfry_queue]_vars

\* C17: handling a client's submission leaves R unchanged and enqueues
\* nothing on the outbound queue, and the transaction it submitted is
\* published by the poller on the tick that first observes it: once a tick
\* has inserted it into M, its event has been enqueued.
C17_SubmittedIsPublishedByPoller ==
    /\ C17_SubmissionFrame
    /\ [](\A t \in TXIDS :
             (/\ ClientAccepted(t)
              /\ t \in known_txids[Self]
              /\ t \notin initKnown[Self])
                => t \in published[Self])

\* --------------------------------------------------------------- M and R
\* A tick whose getrawmempool succeeded ends: the for loop is over and the
\* poller goes to its sleep.
TickEnds(r) == pollPc[r] = "scan" /\ pollPc'[r] = "sleep"

\* C18: at the end of every successful poll tick M equals the set of txids
\* that the tick's getrawmempool returned: the txids absent from the snapshot
\* are gone from M and every txid of the snapshot is in M.
C18_KnownEqualsSnapshot ==
    [][TickEnds(Self) => known_txids'[Self] = current_txids[Self]]_vars

\* C18 witness: a txid that was published, hence in M, has left the mempool
\* and a tick has removed it from M.
C18_Witness ==
    /\ pollPc[Self] = "sleep"
    /\ published[Self] # {}
    /\ mempool[Self] = {}
    /\ known_txids[Self] = {}

\* The ingress handler's sendrawtransaction returns in this step.
SubmitReturns(r) == inPc[r] = "submit" /\ inPc'[r] # "submit"

\* C19: R only grows: no step removes a txid from R, and when the
\* sendrawtransaction of an ingress event returns, whatever its outcome, the
\* event's txid is in R.
C19_RemoteOnlyGrows ==
    /\ [][remote_transactions[Self] \subseteq remote_transactions'[Self]]_vars
    /\ [][SubmitReturns(Self) => inEv[Self].txid \in remote_transactions'[Self]]_vars

\* C19 witness: the handler is done with an event whose transaction the node
\* does not hold, and the txid is in R.
C19_Witness ==
    /\ inPc[Self] = "idle"
    /\ \E t \in TXIDS : /\ t \in submitted[Self]
                         /\ t \in remote_transactions[Self]
                         /\ mempool[Self] = {}
                         /\ known_txids[Self] = {}
                         /\ pollPc[Self] = "init"

\* The initial getrawmempool of relay r fails in this step.
InitialFetchFails(r) == pollPc[r] = "init" /\ initFetch'[r] = "err"

\* The for loop of relay r reaches txid t of the snapshot in this step.
Reaches(r, t) == pollPc[r] = "scan" /\ t \in pending[r] /\ t \notin pending'[r]

FetchFails(r) == pollPc[r] = "tick" /\ pollPc'[r] \notin {"tick", "scan"}

\* C21: a poll tick whose getrawmempool fails leaves M unchanged and
\* publishes nothing; the poller goes to its sleep, and from the sleep it
\* can only go on to the next tick, which it is able to do.
C21_FailedTickChangesNothing ==
    /\ [][FetchFails(Self) => /\ known_txids'[Self] = known_txids[Self]
                               /\ strfry_queue'[Self] = strfry_queue[Self]
                               /\ published'[Self] = published[Self]
                               /\ remote_transactions' = remote_transactions
                               /\ pollPc'[Self] = "sleep"]_vars
    /\ [][(pollPc[Self] = "sleep" /\ pollPc'[Self] # "sleep")
             => (pollPc'[Self] = "tick" /\ known_txids'[Self] = known_txids[Self])]_vars
    /\ [](pollPc[Self] = "sleep" => ENABLED PollSleep(Self))

\* C21 witness: the poller sleeps after a tick whose getrawmempool failed
\* while the mempool holds a transaction that M does not.
C21_Witness ==
    /\ pollPc[Self] = "sleep"
    /\ fetchErr[Self]
    /\ mempool[Self] # known_txids[Self]

\* The answers built so far for the client: written to its socket or on its
\* channel.
Answers == { cliGot[i] : i \in 1..Len(cliGot) } \cup { cliChan[i] : i \in 1..Len(cliChan) }

\* C22: the submit operation yields a success-equivalent outcome whenever
\* the node answers "already in mempool", for every caller: a client whose
\* submission the node answered so is answered success = true.
C22_AlreadyIsSuccess ==
    \A a \in Answers : cliLog[a.n].rpc = "already" => a.success

\* --------------------------------------------------------------- ingress
\* C23: an ingress event whose content is not JSON, or lacks a string hex or
\* a string txid, is dropped with no side effect: R is unchanged, no
\* sendrawtransaction is issued, the gateway stays connected and the handler
\* is free for the next event.
C23_MalformedDropped ==
    [][\A e \in MalformedEvents :
          GwRecvEvent(Self, e)
             => (/\ remote_transactions' = remote_transactions
                 /\ submitted' = submitted
                 /\ mempool' = mempool
                 /\ inPc'[Self] = "idle"
                 /\ gwState'[Self] = "live")]_vars

\* C23 witness: a malformed event of another relay has just been dropped.
C23_Witness ==
    /\ lastDrop[Self] = "malformed"
    /\ gwState[Self] = "live"
    /\ inPc[Self] = "idle"

\* C24: an ingress event is dropped whenever any value of its relay_id tag
\* equals the receiver's relay_id, at any position: it causes no insertion
\* into R and no submit.
C24_AnyOwnValueDropped ==
    [][\A e \in ListedEvents :
          (GwRecvEvent(Self, e) /\ \E i \in 1..Len(e.tag) : e.tag[i] = Self)
             => (inPc'[Self] = "idle" /\ lastDrop'[Self] = "own")]_vars

\* ------------------------------------------------------------- validator
\* The cache holds an entry of t, and the TTL has elapsed since it was put.
Expired(t) ==
    /\ InCache(t)
    /\ \A i \in 1..Len(tx_cache) : tx_cache[i].txid = t => now - tx_cache[i].at >= CacheTtl

\* The string passes the pre-check of the second phase.
PassesPrecheck(x) ==
    x.len > 0 /\ x.hexchars /\ x.len \div 2 >= 60 /\ x.len \div 2 <= 400000

\* C25: once the TTL has elapsed since a txid was cached, validate for that
\* transaction does not return RecentlyProcessed: a call whose string
\* passes the pre-check, or is made with the pre-check disabled, issues a new
\* testmempoolaccept, and when Bitcoin Core allows the transaction the
\* cache holds the txid once, with the time of that return.
C25_ExpiredEntryValidatesAgain ==
    /\ [][\A c \in Callers : \A x \in ValInputs :
             (/\ ValStart(c, x)
              /\ config.enable_validation
              /\ x.tx # NoTx
              /\ Expired(x.tx))
                => /\ valPc'[c] = "idle" => prev'.ret[1] # "RecentlyProcessed"
                   /\ (PassesPrecheck(x) \/ ~config.enable_precheck)
                         => IssuesTestAccept(c, x.tx)]_vars
    /\ [][\A c \in Callers :
             (valPc[c] = "core" /\ valPc'[c] = "idle" /\ prev'.ret = <<"Ok">>)
                => \E i \in 1..Len(tx_cache') :
                      /\ tx_cache'[i] = [txid |-> valArg[c].tx, at |-> now]
                      /\ \A j \in 1..Len(tx_cache') :
                            tx_cache'[j].txid = valArg[c].tx => j = i]_vars

\* C25 witness: a testmempoolaccept is awaited for a transaction whose
\* expired entry is in the cache.
C25_Witness ==
    \E c \in Callers : valPc[c] = "core" /\ Expired(valArg[c].tx)

\* Caller c's call returns: at once from the first phases, or with the
\* answer of Bitcoin Core.
ValReturns(c) ==
    /\ valPc'[c] = "idle"
    /\ \/ valPc[c] = "core"
       \/ \E x \in ValInputs : ValStart(c, x)

\* C26: the validation cache is written only by a validate call that
\* passed every phase: a step that changes the cache is the Ok return of a
\* call that awaited testmempoolaccept, a call that returns an error leaves
\* the cache as it was, and testmempoolaccept is issued only for a string
\* that decodes to a transaction, whose txid has no unexpired entry, and
\* that passes the pre-check when the pre-check is enabled.
C26_CacheWrittenOnlyOnSuccess ==
    /\ [][tx_cache' # tx_cache
            => \E c \in Callers : /\ valPc[c] = "core"
                                  /\ valPc'[c] = "idle"
                                  /\ prev' = [arg |-> valArg[c], at |-> now,
                                              ret |-> <<"Ok">>]]_vars
    /\ [][\A c \in Callers :
             (ValReturns(c) /\ prev'.ret[1] # "Ok") => tx_cache' = tx_cache]_vars
    /\ [][\A c \in Callers : \A t \in ValTxids :
             IssuesTestAccept(c, t)
                => LET x == valArg'[c]
                   IN  /\ config.enable_validation
                       /\ Decodes(x)
                       /\ x.tx = t
                       /\ InCache(t) => Expired(t)
                       /\ config.enable_precheck => PassesPrecheck(x)]_vars

\* C26 witness: Bitcoin Core has refused a transaction that passed the
\* first phases, and the cache holds nothing of it.
C26_Witness ==
    /\ prev.ret[1] \in {"BitcoinCoreRejection", "RpcError"}
    /\ prev.arg.tx # NoTx
    /\ ~InCache(prev.arg.tx)

\* C27: with enable_validation = false validate returns Ok for every
\* input, strings that are not hex included, writes no cache entry and sends
\* no request; with enable_validation = true and enable_precheck = false
\* the structure phase and the recently-processed gate still run, and no
\* call returns InvalidSize or EmptyTransaction.
C27_DisabledFlags ==
    /\ [][\A c \in Callers : \A x \in ValInputs :
             (ValStart(c, x) /\ ~config.enable_validation)
                => /\ valPc'[c] = "idle"
                   /\ prev' = [arg |-> x, at |-> now, ret |-> <<"Ok">>]
                   /\ tx_cache' = tx_cache
                   /\ tmaAt' = tmaAt]_vars
    /\ [](~config.enable_validation
            => /\ tx_cache = <<>>
               /\ \A c \in Callers : valPc[c] = "idle"
               /\ \A t \in ValTxids : tmaAt[t] = NoCall)
    /\ []((config.enable_validation /\ ~config.enable_precheck)
            => prev.ret[1] \notin {"InvalidSize", "EmptyTransaction"})
    /\ [][\A c \in Callers : \A x \in ValInputs :
             (ValStart(c, x) /\ config.enable_validation /\ ~config.enable_precheck)
                => /\ ~Decodes(x) => prev'.ret = <<"InvalidHex">>
                   /\ (Decodes(x) /\ x.tx = NoTx) => prev'.ret = <<"InvalidStructure">>
                   /\ (Decodes(x) /\ x.tx # NoTx /\ InCache(x.tx) /\ ~Expired(x.tx))
                         => prev'.ret = <<"RecentlyProcessed", x.tx>>
                   /\ (Decodes(x) /\ x.tx # NoTx /\ (InCache(x.tx) => Expired(x.tx)))
                         => IssuesTestAccept(c, x.tx)]_vars

\* C27 witness: with validation disabled a string that is not hex was
\* answered Ok.
C27_Witness ==
    /\ ~config.enable_validation
    /\ prev.ret = <<"Ok">>
    /\ ~prev.arg.hexchars

\* C27 witness, second case: with the pre-check disabled a transaction
\* shorter than the minimum size was cached.
C27_WitnessShort ==
    /\ config.enable_validation
    /\ ~config.enable_precheck
    /\ prev.ret = <<"Ok">>
    /\ prev.arg.len \div 2 < MinTxBytes
    /\ InCache(prev.arg.tx)

\* The entries of the cache from the most to the least recently inserted
\* carry insertion times that do not increase.
NewestFirst(cache) ==
    \A i, j \in 1..Len(cache) : i < j => cache[i].at >= cache[j].at

\* C28: the cache never holds more entries than its capacity (cache_size,
\* or 1000 when cache_size is 0) and holds a txid at most once; inserting a
\* txid that is not cached into a full cache evicts the least recently
\* inserted entry and keeps the others in their order; and a validate call
\* that stops at or passes the recently-processed gate leaves the order of
\* the cache as it was.
C28_CacheBounded ==
    /\ [](Len(tx_cache) <= (IF config.cache_size = 0 THEN 1000 ELSE config.cache_size))
    /\ [](\A i, j \in 1..Len(tx_cache) : tx_cache[i].txid = tx_cache[j].txid => i = j)
    /\ [](NewestFirst(tx_cache))
    /\ [][\A c \in Callers :
             (/\ valPc[c] = "core"
              /\ tx_cache' # tx_cache
              /\ ~InCache(valArg[c].tx)
              /\ Len(tx_cache) = (IF config.cache_size = 0 THEN 1000 ELSE config.cache_size))
                => tx_cache' = <<[txid |-> valArg[c].tx, at |-> now]>>
                                  \o SubSeq(tx_cache, 1, Len(tx_cache) - 1)]_vars
    /\ [][\A c \in Callers : \A x \in CacheInputs :
             ValStart(c, x) => tx_cache' = tx_cache]_vars

\* C28 witness: a cache of more than one entry is full and a txid that was
\* cached is no longer in it.
C28_Witness ==
    /\ Len(tx_cache) > 1
    /\ Len(tx_cache) = config.cache_size
    /\ \E t \in CacheTxids : okAt[t] # NoCall /\ ~InCache(t)

\* ---------------------------------------------------------------- ingress
\* C29: whenever the ingress handler issues sendrawtransaction for a raw
\* transaction, the txid of that raw transaction is already in R, also for
\* an event whose `txid` field differs from the txid of its `hex` field.
C29_RealTxidMarkedBeforeSubmit ==
    inPc[Self] = "submit" => inEv[Self].hex \in remote_transactions[Self]

\* ----------------------------------------------------------------- poller
\* Once t is in M the poller publishes it no more, and t leaves M only at
\* the end of a tick whose snapshot does not hold it.
KnownIsSilent(r) ==
    \A t \in TXIDS :
       /\ Publishes(r, t) => t \notin known_txids[r]
       /\ (t \in known_txids[r] /\ t \notin known_txids'[r])
             => (TickEnds(r) /\ t \notin current_txids[r])

\* C30 as stated: in a poll tick every new txid of the snapshot is inserted
\* into M whether or not it was published, a txid whose getrawtransaction
\* gave no transaction included, so no later tick publishes it while it
\* stays in the mempool.
C30_EveryNewTxidKnown ==
    /\ [][\A t \in TXIDS :
             (Reaches(Self, t) /\ t \notin known_txids[Self] /\ pollPc'[Self] = "scan")
                => t \in known_txids'[Self]]_vars
    /\ [][\A t \in TXIDS : FetchReturns(Self, t) => t \in known_txids'[Self]]_vars
    /\ [][KnownIsSilent(Self)]_vars

\* The part of C30 that holds: a new txid that is in R, and a new txid whose
\* getrawtransaction failed or returned hex that is not a transaction, is
\* inserted into M in that tick without a publish, and one whose result was
\* a transaction is inserted with its publish; a result that is not hex ends
\* the poller task with M and the queue as they were.  Once in M the txid
\* is published by no later tick while the snapshots hold it.
C30_FailedFetchIsKnown ==
    /\ [][\A t \in TXIDS :
             (Reaches(Self, t) /\ t \notin known_txids[Self] /\ pollPc'[Self] = "scan")
                => (t \in known_txids'[Self] /\ ~Publishes(Self, t))]_vars
    /\ [][\A t \in TXIDS :
             FetchReturns(Self, t)
                => IF raw_tx'[Self] = "nonhex"
                   THEN /\ pollPc'[Self] = "dead"
                        /\ known_txids'[Self] = known_txids[Self]
                        /\ strfry_queue'[Self] = strfry_queue[Self]
                   ELSE /\ t \in known_txids'[Self]
                        /\ Publishes(Self, t) <=> raw_tx'[Self] = "ok"
                        /\ raw_tx'[Self] # "ok"
                             => /\ strfry_queue'[Self] = strfry_queue[Self]
                                /\ published'[Self] = published[Self]]_vars
    /\ [][KnownIsSilent(Self)]_vars

\* The case of C30_FailedFetchIsKnown: a later tick passes over a txid of its snapshot that is in
\* M, was never published, never came from a remote relay and was not in
\* the initial snapshot: its fetch failed in an earlier tick.
C30_Witness ==
    /\ pollPc[Self] = "scan"
    /\ \E t \in pending[Self] :
          /\ t \in known_txids[Self]
          /\ t \in mempool[Self]
          /\ t \notin published[Self]
          /\ t \notin remote_transactions[Self]
          /\ t \notin initKnown[Self]

\* ---------------------------------------------------------------- ingress
\* A step of the ingress handler of relay r: an event is read, its txid
\* marked, or its transaction submitted.
IngressStep(r) ==
    \/ \E e \in bus[r] \cup ForeignEvents : GwRecvEvent(r, e)
    \/ IngressMark(r)
    \/ IngressSubmit(r, SubmitResults)

\* C31: delivering a remote event again, or another event with the same
\* txid, in any order and across reconnects, is harmless: the handling of
\* an event whose txid is in R leaves R as it was, no step of the ingress
\* handler enqueues a publish, and the poller publishes nothing for a new
\* txid it finds in R.
C31_RedeliveryHarmless ==
    /\ [][(IngressMark(Self) /\ inEv[Self].txid \in remote_transactions[Self])
            => remote_transactions' = remote_transactions]_vars
    /\ [][(inPc[Self] # "idle" /\ inEv[Self].txid \in remote_transactions[Self])
            => remote_transactions' = remote_transactions]_vars
    /\ [][IngressStep(Self)
            => (strfry_queue' = strfry_queue /\ published' = published)]_vars
    /\ [][\A t \in TXIDS :
             (Reaches(Self, t) /\ t \in remote_transactions[Self])
                => (strfry_queue' = strfry_queue /\ pollPc'[Self] = "scan")]_vars

\* C31 witness: an event whose txid was marked and submitted before has been
\* read and marked again, and its transaction is about to be submitted a
\* second time; nothing was ever published.
C31_Witness ==
    /\ inPc[Self] = "submit"
    /\ inEv[Self].txid \in submitted[Self]
    /\ published[Self] = {}

\* ----------------------------------------------------------------- client
\* C32: after an inbound client connection ends for any reason its entry is
\* gone from the client map and its forwarding task is over: the client map
\* holds exactly the ids of the clients that are connected.
C32_ClientMapExact ==
    /\ ClientId \in clients <=> cliOpen
    /\ ~cliOpen => cliTask = "ended"

\* What holds of C32: a connection that ends with a Close frame or with the
\* end of the stream has its entry removed and its task aborted.
C32_CleanCloseRemoves ==
    [][ClientClose => (clients' = {} /\ cliTask' = "ended" /\ cliChan' = <<>>)]_vars

\* ---------------------------------------------------------------- gateway
\* The event of t was enqueued, taken off the channel and written to the
\* socket.
Sent(r, t) == t \in published[r] /\ ~Queued(r, t) /\ t \notin lost[r]

\* What holds of C33: the channel changes only by a publish appended at its
\* end or by the gateway, Live, taking its first event, so events leave in
\* the order they were enqueued, each once, and stay while the gateway is
\* not Live; and an event is lost only when it was the one taken and the
\* send failed.
C33_QueueIsFifo ==
    /\ [][strfry_queue'[Self] # strfry_queue[Self]
            => \/ \E t \in TXIDS : Publishes(Self, t)
               \/ /\ gwState[Self] = "live"
                  /\ strfry_queue[Self] # <<>>
                  /\ strfry_queue'[Self] = Tail(strfry_queue[Self])]_vars
    /\ [][lost'[Self] # lost[Self]
            => /\ strfry_queue[Self] # <<>>
               /\ strfry_queue'[Self] = Tail(strfry_queue[Self])
               /\ lost'[Self] = lost[Self] \cup {Head(strfry_queue[Self]).txid}
               /\ gwState'[Self] = "backoff"]_vars
    /\ [][(/\ gwState[Self] = "live"
            /\ gwState'[Self] = "live"
            /\ strfry_queue[Self] # <<>>
            /\ strfry_queue'[Self] = Tail(strfry_queue[Self]))
            => lost' = lost]_vars

\* C33: events leave the channel in the order they were enqueued, each at
\* most once, those enqueued while the gateway is not Live stay until it is,
\* only the event whose send failed is lost, and a transaction that the
\* poller meets as new in the local mempool after the gateway has
\* subscribed is eventually sent as a kind-20012 event (or is waiting on
\* the channel, was lost by a failed send, arrived over Nostr, or the
\* poller has ended).
C33_QueueDelivers ==
    /\ C33_QueueIsFifo
    /\ \A t \in TXIDS :
          (/\ since[Self] # NoSince
           /\ initFetch[Self] = "ok"
           /\ t \in mempool[Self]
           /\ t \in known_txids[Self]
           /\ t \notin initKnown[Self]
           /\ t \notin remote_transactions[Self])
              ~> (\/ Sent(Self, t)
                  \/ Queued(Self, t)
                  \/ t \in lost[Self]
                  \/ t \in remote_transactions[Self]
                  \/ pollPc[Self] = "dead")

\* ------------------------------------------------------------ block relay
\* An iteration of the block relay's loop ends.
BlkIterates == blkPc = "poll" /\ blkPc' = "sleep"

\* What the block relay does with a tip: a hash is handled only in an
\* iteration that finds it as the tip and different from the recorded one,
\* and that iteration records it whether or not its block was fetched and
\* its events sent; an iteration that finds the recorded hash again
\* fetches and sends nothing, so a block whose fetch failed is not
\* retried while it stays the tip; the recorded hash changes in no other
\* way; and no event is sent for a coinbase transaction.
BlkHandling ==
    /\ [][\A h \in Hashes :
             handled'[h] # handled[h]
                => /\ BlkIterates
                   /\ h = tip
                   /\ h # last_block_hash
                   /\ handled'[h] = handled[h] + 1
                   /\ last_block_hash' = h]_vars
    /\ [][(BlkIterates /\ tip = last_block_hash)
            => UNCHANGED <<last_block_hash, handled, blkSent, blkFailed>>]_vars
    /\ [][last_block_hash' # last_block_hash
            => (BlkIterates /\ last_block_hash' = tip /\ handled'[tip] = handled[tip] + 1)]_vars
    /\ [][blkSent' # blkSent => handled' # handled]_vars
    /\ [](\A h \in Hashes : \A i \in 1..Len(BlockTxs(h)) :
             BlockTxs(h)[i].coinbase => BlockTxs(h)[i].txid \notin blkSent)

\* C34 as stated: each observed best-block hash is handled at most once, a
\* new tip is recorded after the attempt whatever its outcome, a block whose
\* fetch failed is not retried while it stays the tip, and coinbase
\* transactions produce no event.
C34_HandledAtMostOnce ==
    /\ [](\A h \in Hashes : handled[h] <= 1)
    /\ BlkHandling

\* C34, amended: a best-block hash is handled once each time it becomes a
\* tip different from the recorded one, so a hash that is the tip again
\* after another was recorded is handled again; a new tip is recorded
\* after the attempt whatever its outcome, a block whose fetch failed is not
\* retried while it stays the tip, and coinbase transactions produce no
\* event.
C34_HandledOncePerTip ==
    /\ BlkHandling
    /\ [][\A h \in Hashes :
             (BlkIterates /\ handled'[h] # handled[h] /\ handled[h] > 0)
                => (last_block_hash # h /\ last_block_hash # NoHash)]_vars

\* C34 witness: the block of the tip could not be fetched, the tip was
\* recorded, and a later iteration found it again and did nothing.
C34_Witness ==
    /\ blkIdle
    /\ tip \in blkFailed
    /\ last_block_hash = tip
    /\ handled[tip] = 1

\* ------------------------------------------------------------------ ports
\* C35: for every relay id the command line accepts, the listen port
\* 7779 + relay_id - 1 and the RPC port 18443 + (relay_id - 1) are computed
\* within the u16 range: no computation panics, and the ports are the
\* mathematical values.
C35_PortsInRange ==
    /\ portPc \notin {"panicked", "rpc_panicked"}
    /\ portPc \in {"running", "called"}
          => (port = ListenBase + relay_id - 1 /\ port \in 0..(U16Size - 1))
    /\ portPc = "called"
          => (rpc_port = RpcBase + relay_id - 1 /\ rpc_port \in 0..(U16Size - 1))

\* What holds of C35: for the relay ids from 1 to 65535 - 18442 both
\* computations give the mathematical values in either build, and the
\* listen port is computed without underflow for relay id 0.
C35_SmallIdsExact ==
    /\ (portPc # "start" /\ relay_id >= 1 /\ relay_id <= U16Size - RpcBase)
          => /\ portPc \in {"running", "called"}
             /\ port = ListenBase + relay_id - 1
             /\ portPc = "called" => rpc_port = RpcBase + relay_id - 1
    /\ (portPc # "start" /\ relay_id = 0)
          => (portPc # "panicked" /\ port = ListenBase - 1)
====
